---- MODULE Spec2Model ----
(***************************************************************************)
(* ClusterQueue: the job table shared by racing processors.               *)
(*                                                                         *)
(* The store (tables nodes, processors, jobs) is the only shared state.   *)
(* Every SQL statement the code builds is a record; ExecSql gives its     *)
(* effect on the store; ExecuteQueries runs a batch as one transaction.   *)
(* A processor loop, the node's main process and the submit script are    *)
(* sequential processes that interleave at their store operations.        *)
(* datetime.now() is a read of the variable clock; a statement carries    *)
(* the value read when its text was built and commits in a later step.    *)
(***************************************************************************)
EXTENDS Integers, Sequences, FiniteSets, TLC

\* ------------------------------------------------------------------ bounds

MaxJobs == 1
MaxRows == 3
MaxClock == 2
MaxTags == 2
MaxTagLen == 3
MaxSignals == 2

\* ------------------------------------------------------- deployment inputs

Hosts == {"hostA", "hostB"}

UNASSIGNED == "UNASSIGNED"

\* --num_parallel_jobs of each node's command line (0: the host runs no
\* compute node): two processors on one host, or one on each of two hosts
Deployments ==
    {[h \in Hosts |-> IF h = "hostA" THEN 2 ELSE 0],
     [h \in Hosts |-> 1]}

\* --tags of each node's command line, after split(",")
TAGS == [h \in Hosts |-> IF h = "hostA" THEN {"gpu"} ELSE {"cpu"}]

AllTags == {"gpu", "cpu"}

\* One ProcessorContext per pool worker: <<hostname, processor_idx>>
ProcessorContext == Hosts \X {0, 1}

ReturnCodes == {0, 2}

\* The main process of a host, written like a pool worker of index -1
MainProcess(h) == <<h, -1>>

\* The main process of each host and its pool workers
Processes == {MainProcess(h) : h \in Hosts} \cup ProcessorContext

\* snooze_time_seconds: 0 (leave when the queue is empty) or a positive
\* number of seconds
SnoozeTimes == {0, 1}

\* ------------------------------------------------- Python and SQL values

None == [kind |-> "none"]
List(S) == [kind |-> "list", elems |-> S]
Py(v) == [kind |-> "value", v |-> v]

SqlNull == [kind |-> "null"]
Text(s) == [kind |-> "text", s |-> s]
Array(S) == [kind |-> "array", elems |-> S]
Val(v) == [kind |-> "value", v |-> v]

\* The tag lists a submitter may give a job: absent, empty, or a list
JobTagChoices == {None, List({}), List({"gpu"})}

\* db.handle_null: the quoted sentinel 'NULL' becomes SQL NULL
handle_null(v) ==
    IF v = Text("NULL") THEN SqlNull ELSE v

\* ------------------------------------------------------------- variables

VARIABLES
    clock,       \* the wall clock datetime.now() reads
    NUM_PARALLEL_JOBS, \* per host: --num_parallel_jobs, fixed at deployment
    snooze_time_seconds, \* orchestration.snooze_time_seconds of the config file
    signals,     \* per process: the interrupt signals delivered to it so far
    nodes,       \* table nodes: node_hostname -> row
    processors,  \* table processors: <<processor_id, processor_parent_node>> -> row
    jobs,        \* table jobs: job_id -> row (identity column: 1, 2, ...)
    main,        \* per host: compute_node_multi's main process: its position
                 \* and the clock value stop_node put in its statements
    loop,        \* per processor: the frame of the processor loop: position,
                 \* job (job_id of available_jobs[0]), now (the clock value in
                 \* the statement being built), returncode, start_timestamp and
                 \* claimed_sucessfully
    script,      \* the submit script: position and the Job record it builds
    handled,     \* history: job_id -> processors that entered handle_job for it
    claimed,     \* history: job_id -> processors whose claim_job returned True
    transitioned \* history: processor -> its claim UPDATE changed PENDING to CLAIMED

vars == <<clock, NUM_PARALLEL_JOBS, snooze_time_seconds, signals, nodes,
          processors, jobs, main, loop, script, handled, claimed, transitioned>>

\* What the outside of the processes decides: the command line, the config
\* file, the signals
outside == <<NUM_PARALLEL_JOBS, snooze_time_seconds, signals>>

tables == <<nodes, processors, jobs>>

history == <<handled, claimed, transitioned>>

store == [nodes |-> nodes, processors |-> processors, jobs |-> jobs]

\* --------------------------------------------------------- query builders

\* Node.init_table_query: the pre-populated virtual node
PrepopulateRow(t) ==
    [node_status |-> "UNASSIGNED", node_tags |-> Array({"virtual"}),
     node_num_parallel_jobs |-> 1, node_last_seen |-> t]

\* Node(...).insert_query() as update_node builds it: num_parallel_jobs is
\* not passed to Node(), so the model's default 1 is written
NodeInsertQuery(hostname, status, tags, t) ==
    [op |-> "upsert_node", hostname |-> hostname,
     row |-> [node_status |-> status, node_tags |-> Array(tags),
              node_num_parallel_jobs |-> 1, node_last_seen |-> t]]

\* A heartbeat that writes the node row anew, as an update_node would
UpdateLastSeenQueryAsUpsert(hostname, t) ==
    [op |-> "upsert_node", hostname |-> hostname,
     row |-> [node_status |-> "idle", node_tags |-> Array(TAGS[hostname]),
              node_num_parallel_jobs |-> 1, node_last_seen |-> t]]

UpdateLastSeenQuery(hostname, t) ==
    [op |-> "node_last_seen", hostname |-> hostname, t |-> t]

ProcessorInsertQuery(processor_id, parent_node, status, t) ==
    [op |-> "upsert_processor", key |-> <<processor_id, parent_node>>,
     row |-> [processor_status |-> status, processor_last_seen |-> t]]

\* Job.insert_query: an absent tags or result_metadata becomes the quoted
\* text NULL, which handle_null turns into SQL NULL; the processor column is
\* written unquoted, so its NULL is SQL NULL; an absent assigned node becomes
\* UNASSIGNED
JobInsertQuery(j) ==
    LET job_tags == IF j.job_tags = None THEN Text("NULL")
                    ELSE Array(j.job_tags.elems)
        job_assigned_node == IF j.job_assigned_node = None THEN UNASSIGNED
                             ELSE j.job_assigned_node.v
        job_result_metadata == IF j.job_result_metadata = None THEN Text("NULL")
                               ELSE Val(j.job_result_metadata.v)
        job_assigned_node_processor ==
            IF j.job_assigned_node_processor = None THEN SqlNull
            ELSE Val(j.job_assigned_node_processor.v)
    IN  [op |-> "insert_job",
         row |-> [job_payload |-> j.job_payload,
                  job_status |-> j.job_status,
                  job_tags |-> handle_null(job_tags),
                  job_last_updated |-> j.job_last_updated,
                  job_submission_time |-> j.job_submission_time,
                  job_assigned_node |-> job_assigned_node,
                  job_assigned_node_processor |-> job_assigned_node_processor,
                  job_result_metadata |-> handle_null(job_result_metadata)]]

\* claim_job: the conditional UPDATE
ClaimQuery(hostname, processor_idx, job_id, t) ==
    [op |-> "claim", hostname |-> hostname, processor_idx |-> processor_idx,
     job_id |-> job_id, t |-> t]

\* A WHERE clause that also selects a job already CLAIMED
ClaimWherePendingOrClaimed(q, id, row) ==
    id = q.job_id /\ row.job_status \in {"PENDING", "CLAIMED"}

\* The UPDATE without its status condition
ClaimWhereAnyStatus(q, id, row) ==
    id = q.job_id

ClaimWhere(q, id, row) ==
    id = q.job_id /\ row.job_status = "PENDING"

\* The UPDATE without the processor column
ClaimSetNoProcessor(q, row) ==
    [row EXCEPT !.job_assigned_node = q.hostname,
                !.job_status = "CLAIMED",
                !.job_last_updated = q.t]

ClaimSet(q, row) ==
    [row EXCEPT !.job_assigned_node = q.hostname,
                !.job_assigned_node_processor = Val(q.processor_idx),
                !.job_status = "CLAIMED",
                !.job_last_updated = q.t]

\* update_job_status: the UPDATE
UpdateJobStatusQuery(job_id, status, t) ==
    [op |-> "job_status", job_id |-> job_id, status |-> status, t |-> t]

UpdateJobStatusWhere(q, id, row) ==
    id = q.job_id

\* The UPDATE with the status argument ignored
UpdateJobStatusSetError(q, row) ==
    [row EXCEPT !.job_status = "ERROR", !.job_last_updated = q.t]

UpdateJobStatusSet(q, row) ==
    [row EXCEPT !.job_status = q.status, !.job_last_updated = q.t]

\* handle_job: the RUNNING UPDATE
RunningQuery(job_id, t) ==
    [op |-> "job_running", job_id |-> job_id, t |-> t]

RunningWhere(q, id, row) ==
    id = q.job_id

\* An UPDATE that also clears the tags
RunningSetClearsTags(q, row) ==
    [row EXCEPT !.job_status = "RUNNING", !.job_last_updated = q.t,
                !.job_tags = SqlNull]

RunningSet(q, row) ==
    [row EXCEPT !.job_status = "RUNNING", !.job_last_updated = q.t]

\* handle_job: the COMPLETED UPDATE
CompletedQuery(job_id, t, result_metadata) ==
    [op |-> "job_completed", job_id |-> job_id, t |-> t,
     result_metadata |-> result_metadata]

CompletedWhere(q, id, row) ==
    id = q.job_id

\* The UPDATE without the result_metadata column
CompletedSetNoMetadata(q, row) ==
    [row EXCEPT !.job_status = "COMPLETED", !.job_last_updated = q.t]

\* The UPDATE with a non-zero return code written as FAILED
CompletedSetFailedOnNonZero(q, row) ==
    [row EXCEPT !.job_status = IF q.result_metadata.returncode = 0
                               THEN "COMPLETED" ELSE "FAILED",
                !.job_last_updated = q.t,
                !.job_result_metadata = Val(q.result_metadata)]

\* The UPDATE that leaves the status as it is
CompletedSetKeepsStatus(q, row) ==
    [row EXCEPT !.job_last_updated = q.t,
                !.job_result_metadata = Val(q.result_metadata)]

CompletedSet(q, row) ==
    [row EXCEPT !.job_status = "COMPLETED", !.job_last_updated = q.t,
                !.job_result_metadata = Val(q.result_metadata)]

\* stop_node: the two statements of its batch
StopNodeQuery(hostname, t) ==
    [op |-> "stop_node", hostname |-> hostname, t |-> t]

InterruptJobsQuery(hostname, t) ==
    [op |-> "interrupt_jobs", hostname |-> hostname, t |-> t]

\* The UPDATE without its assigned_node condition
InterruptJobsWhereAnyNode(q, id, row) ==
    row.job_status = "RUNNING"

\* The UPDATE without its status condition
InterruptJobsWhereAnyStatus(q, id, row) ==
    row.job_assigned_node = q.hostname

\* The UPDATE for the node's finished jobs as well
InterruptJobsWhereFinished(q, id, row) ==
    /\ row.job_assigned_node = q.hostname
    /\ row.job_status \in {"RUNNING", "COMPLETED", "FAILED"}

InterruptJobsWhere(q, id, row) ==
    row.job_assigned_node = q.hostname /\ row.job_status = "RUNNING"

InterruptJobsSet(q, row) ==
    [row EXCEPT !.job_status = "INTERRUPTED", !.job_last_updated = q.t]

\* ------------------------------------------------------ statement effects

\* ON CONFLICT DO NOTHING: the row of an existing key is kept
UpsertKeepFirst(table, key, row) ==
    [k \in DOMAIN table \cup {key} |-> IF k \in DOMAIN table THEN table[k] ELSE row]

Upsert(table, key, row) ==
    [k \in DOMAIN table \cup {key} |-> IF k = key THEN row ELSE table[k]]

JobIds(s) == 1..Len(s.jobs)

\* UPDATE jobs SET ... WHERE ...: the rows the WHERE clause selects
Where(q, id, row) ==
    CASE q.op = "claim" -> ClaimWhere(q, id, row)
      [] q.op = "job_status" -> UpdateJobStatusWhere(q, id, row)
      [] q.op = "job_running" -> RunningWhere(q, id, row)
      [] q.op = "job_completed" -> CompletedWhere(q, id, row)
      [] q.op = "interrupt_jobs" -> InterruptJobsWhere(q, id, row)

Set(q, row) ==
    CASE q.op = "claim" -> ClaimSet(q, row)
      [] q.op = "job_status" -> UpdateJobStatusSet(q, row)
      [] q.op = "job_running" -> RunningSet(q, row)
      [] q.op = "job_completed" -> CompletedSet(q, row)
      [] q.op = "interrupt_jobs" -> InterruptJobsSet(q, row)

UpdateJobs(q, s) ==
    [s EXCEPT !.jobs = [id \in JobIds(s) |->
        IF Where(q, id, s.jobs[id]) THEN Set(q, s.jobs[id]) ELSE s.jobs[id]]]

\* UPDATE nodes SET ... WHERE node_hostname = ...: field becomes value in
\* the row of that name, if there is one
UpdateNode(q, s, field, value) ==
    [s EXCEPT !.nodes = [h \in DOMAIN s.nodes |->
        IF h = q.hostname THEN [s.nodes[h] EXCEPT ![field] = value,
                                                  !.node_last_seen = q.t]
        ELSE s.nodes[h]]]

\* The effect of one SQL statement on the store
ExecSql(q, s) ==
    CASE q.op = "upsert_node" ->
            [s EXCEPT !.nodes = Upsert(s.nodes, q.hostname, q.row)]
      [] q.op = "node_last_seen" ->
            UpdateNode(q, s, "node_last_seen", q.t)
      [] q.op = "stop_node" ->
            UpdateNode(q, s, "node_status", "STOPPED")
      [] q.op = "upsert_processor" ->
            [s EXCEPT !.processors = Upsert(s.processors, q.key, q.row)]
      [] q.op = "insert_job" ->
            [s EXCEPT !.jobs = Append(s.jobs, q.row)]
      [] OTHER -> UpdateJobs(q, s)

\* db.execute_queries: the statements of one call run in order and commit
\* together
RECURSIVE ExecuteQueries(_, _)
ExecuteQueries(queries, s) ==
    IF queries = <<>> THEN s
    ELSE ExecuteQueries(Tail(queries), ExecSql(Head(queries), s))

Commit(s) ==
    /\ nodes' = s.nodes
    /\ processors' = s.processors
    /\ jobs' = s.jobs

\* ------------------------------------------------------------------ poll

\* A WHERE clause without the tag conditions
EligibleAnyTags(row, tags) ==
    row.job_status = "PENDING"

\* The WHERE clause of Job.get_pending_jobs
Eligible(row, tags) ==
    /\ row.job_status = "PENDING"
    /\ IF tags = {}
       THEN row.job_tags = SqlNull
       ELSE \/ row.job_tags = SqlNull
            \/ /\ row.job_tags.elems \cap tags # {}
               /\ row.job_tags.elems \subseteq tags

IsInjective(f) ==
    \A a, b \in DOMAIN f : f[a] = f[b] => a = b

\* A SELECT without its ORDER BY: any rows the WHERE clause selects
JobGetPendingJobsUnordered(s, tags, limit) ==
    LET E == {id \in JobIds(s) : Eligible(s.jobs[id], tags)}
        n == IF Cardinality(E) < limit THEN Cardinality(E) ELSE limit
    IN  {r \in [1..n -> E] : IsInjective(r)}

\* Job.get_pending_jobs: every result the SELECT may return.  ORDER BY
\* job_submission_time leaves rows of equal time in any order.
JobGetPendingJobs(s, tags, limit) ==
    LET E == {id \in JobIds(s) : Eligible(s.jobs[id], tags)}
        n == IF Cardinality(E) < limit THEN Cardinality(E) ELSE limit
        time(id) == s.jobs[id].job_submission_time
    IN  {r \in [1..n -> E] :
            /\ IsInjective(r)
            /\ \A a, b \in 1..n : a < b => time(r[a]) <= time(r[b])
            /\ \A a \in 1..n : \A id \in E \ {r[b] : b \in 1..n} :
                    time(r[a]) <= time(id)}

\* orchestrator.get_pending_jobs: None for an empty list
get_pending_jobs(s, tags, limit) ==
    {IF Len(r) = 0 THEN None ELSE Py(r) : r \in JobGetPendingJobs(s, tags, limit)}

\* ------------------------------------------------------------------ init

\* The frame of a processor at the top of its while loop
Frame(at) ==
    [pc |-> at, job |-> 0, now |-> 0, returncode |-> 0, start_timestamp |-> 0,
     claimed_sucessfully |-> "unset"]

NoJob ==
    [at |-> "new", job_tags |-> None, job_last_updated |-> 0]

\* A positive snooze time and no signal delivered
Undisturbed ==
    /\ snooze_time_seconds = 1
    /\ signals = [p \in Processes |-> 0]

\* The store as init_db leaves it; no node is started
InitDb ==
    /\ Undisturbed
    /\ clock = 0
    /\ nodes = [h \in {UNASSIGNED} |-> PrepopulateRow(0)]
    /\ processors = <<>>
    /\ jobs = <<>>
    /\ main = [h \in Hosts |-> [pc |-> "off", now |-> 0]]
    /\ loop = [w \in ProcessorContext |-> Frame("off")]
    /\ script = NoJob
    /\ handled = [id \in 1..MaxJobs |-> {}]
    /\ claimed = [id \in 1..MaxJobs |-> {}]
    /\ transitioned = [w \in ProcessorContext |-> FALSE]

Init == InitDb /\ NUM_PARALLEL_JOBS \in Deployments

\* ------------------------------------------------------- the submit script
\* scripts/submit_test_job.py, scripts/submit_fmriprep_test.py and
\* workflows/run_fmriprep.py build Job(job_status="PENDING",
\* job_last_updated=datetime.now(), job_submission_time=datetime.now(), ...)
\* and insert it; the keyword arguments are evaluated in that order.

\* The script starts to build its Job: job_last_updated is read
NewJob ==
    /\ script.at = "new"
    /\ Len(jobs) < MaxJobs
    /\ \E tags \in JobTagChoices :
          script' = [at |-> "last_updated", job_tags |-> tags,
                     job_last_updated |-> clock]
    /\ UNCHANGED <<clock, outside, tables, main, loop, history>>

\* The Job record the scripts pass to insert_query, its job_submission_time
\* read at t
ScriptJob(t) ==
    [job_payload |-> "echo $TEST_VAR_1, $TEST_VAR_2",
     job_status |-> "PENDING", job_tags |-> script.job_tags,
     job_last_updated |-> script.job_last_updated,
     job_submission_time |-> t,
     job_assigned_node |-> None, job_assigned_node_processor |-> None,
     job_result_metadata |-> None]

\* job_submission_time is read; the Job is built and inserted
submit_job ==
    /\ script.at = "last_updated"
    /\ Commit(ExecuteQueries(<<JobInsertQuery(ScriptJob(clock))>>, store))
    /\ script' = NoJob
    /\ UNCHANGED <<clock, outside, main, loop, history>>

\* -------------------------------------- compute_node_multi: main process

InPool(w, h) == w[1] = h /\ w[2] < NUM_PARALLEL_JOBS[h]

\* A start that does not register the node
update_node_skipped(h) ==
    /\ main[h].pc = "off"
    /\ NUM_PARALLEL_JOBS[h] > 0
    /\ main' = [main EXCEPT ![h].pc = "registered"]
    /\ UNCHANGED <<clock, outside, tables, loop, script, history>>

\* orchestrator.update_node(status="started")
update_node(h) ==
    /\ main[h].pc = "off"
    /\ NUM_PARALLEL_JOBS[h] > 0
    /\ Commit(ExecuteQueries(
          <<NodeInsertQuery(h, "started", TAGS[h], clock)>>, store))
    /\ main' = [main EXCEPT ![h].pc = "registered"]
    /\ UNCHANGED <<clock, outside, loop, script, history>>

\* pool.map(processor, params): one processor loop per pool worker
PoolMap(h) ==
    /\ main[h].pc = "registered"
    /\ main' = [main EXCEPT ![h].pc = "up"]
    /\ loop' = [w \in ProcessorContext |->
                   IF InPool(w, h) THEN Frame("poll") ELSE loop[w]]
    /\ UNCHANGED <<clock, outside, tables, script, history>>

\* KeyboardInterrupt in pool.map: stop_node builds its two statements
KeyboardInterrupt(h) ==
    /\ main[h].pc = "up"
    /\ main' = [main EXCEPT ![h] = [pc |-> "stop_node", now |-> clock]]
    /\ signals' = [signals EXCEPT ![MainProcess(h)] = @ + 1]
    /\ UNCHANGED <<clock, NUM_PARALLEL_JOBS, snooze_time_seconds, tables, loop,
                   script, history>>

\* stop_node: the batch of its two statements is executed
stop_node(h) ==
    /\ main[h].pc = "stop_node"
    /\ Commit(ExecuteQueries(
          <<StopNodeQuery(h, main[h].now), InterruptJobsQuery(h, main[h].now)>>,
          store))
    /\ main' = [main EXCEPT ![h].pc = "stopped"]
    /\ UNCHANGED <<clock, outside, loop, script, history>>

\* Leaving the with-block terminates the pool's worker processes
PoolTerminate(h) ==
    /\ main[h].pc = "stopped"
    /\ main' = [main EXCEPT ![h] = [pc |-> "done", now |-> 0]]
    /\ loop' = [w \in ProcessorContext |->
                   IF InPool(w, h) THEN Frame("dead") ELSE loop[w]]
    /\ transitioned' = [w \in ProcessorContext |->
                           IF InPool(w, h) THEN FALSE ELSE transitioned[w]]
    /\ UNCHANGED <<clock, outside, tables, script, handled, claimed>>

\* ------------------------------------ compute_node_multi: processor loop
\* A step of a processor is one store operation, followed by what the code
\* does up to its next one: a statement's datetime.now() is read at the end
\* of the step before the one that commits the statement.

\* A status text that does not name the job
HandlingNoJob(job_id) ==
    "handling"

Handling(job_id) ==
    "handling " \o ToString(job_id)

\* orchestrator.update_node_processor: upsert the processor row, then set
\* the parent node's last_seen
update_node_processor(hostname, processor_idx, status, s) ==
    ExecuteQueries(<<UpdateLastSeenQuery(hostname, clock)>>,
        ExecuteQueries(
            <<ProcessorInsertQuery(processor_idx, hostname, status, clock)>>, s))

\* get_pending_jobs(limit=1); with a job, claim_job builds its UPDATE
Poll(w) ==
    /\ loop[w].pc = "poll"
    /\ \E available_jobs \in get_pending_jobs(store, TAGS[w[1]], 1) :
          IF available_jobs = None
          THEN loop' = [loop EXCEPT ![w] = Frame("snoozing")]
          ELSE loop' = [loop EXCEPT ![w] =
                   [Frame("claim_update") EXCEPT !.job = available_jobs.v[1],
                                                 !.now = clock]]
    /\ UNCHANGED <<clock, outside, tables, main, script, history>>

\* A loop that goes to sleep without its heartbeat
SnoozingHeartbeatSkipped(w) ==
    /\ loop[w].pc = "snoozing"
    /\ loop' = [loop EXCEPT ![w].pc = "snooze"]
    /\ UNCHANGED <<clock, outside, tables, main, script, history>>

\* The "snoozing" heartbeat of the branch without a job
SnoozingHeartbeat(w) ==
    /\ loop[w].pc = "snoozing"
    /\ Commit(update_node_processor(w[1], w[2], "snoozing", store))
    /\ loop' = [loop EXCEPT ![w].pc = "snooze"]
    /\ UNCHANGED <<clock, outside, main, script, history>>

\* A snooze that sleeps whatever the configured time
snooze_always_sleeps(w) ==
    /\ loop[w].pc = "snooze"
    /\ Commit(update_node_processor(w[1], w[2], "idle", store))
    /\ loop' = [loop EXCEPT ![w].pc = "poll"]
    /\ UNCHANGED <<clock, outside, main, script, history>>

\* The sleep of snooze ends; the loop writes idle and continues
snooze(w) ==
    /\ loop[w].pc = "snooze"
    /\ snooze_time_seconds # 0
    /\ Commit(update_node_processor(w[1], w[2], "idle", store))
    /\ loop' = [loop EXCEPT ![w].pc = "poll"]
    /\ UNCHANGED <<clock, outside, main, script, history>>

\* claim_job: the conditional UPDATE is executed
ClaimUpdate(w) ==
    /\ loop[w].pc = "claim_update"
    /\ Commit(ExecuteQueries(
          <<ClaimQuery(w[1], w[2], loop[w].job, loop[w].now)>>, store))
    /\ transitioned' = [transitioned EXCEPT ![w] =
          /\ jobs[loop[w].job].job_status = "PENDING"
          /\ jobs'[loop[w].job].job_status = "CLAIMED"]
    /\ loop' = [loop EXCEPT ![w].pc = "claim_select"]
    /\ UNCHANGED <<clock, outside, main, script, handled, claimed>>

\* A read-back that compares the hostname only
ClaimReadBackHostOnly(hostname, processor_idx, job_id, s) ==
    IF job_id \notin JobIds(s) THEN FALSE
    ELSE s.jobs[job_id].job_assigned_node = hostname

\* A read-back that only looks for the row
ClaimReadBackRowFound(hostname, processor_idx, job_id, s) ==
    job_id \in JobIds(s)

\* claim_job: what it returns after the read-back SELECT
ClaimReadBack(hostname, processor_idx, job_id, s) ==
    IF job_id \notin JobIds(s) THEN FALSE
    ELSE /\ s.jobs[job_id].job_assigned_node = hostname
         /\ s.jobs[job_id].job_assigned_node_processor = Val(processor_idx)

\* claim_job: the read-back; on False the loop continues with the next poll
ClaimSelect(w) ==
    /\ loop[w].pc = "claim_select"
    /\ IF ClaimReadBack(w[1], w[2], loop[w].job, store)
       THEN /\ loop' = [loop EXCEPT ![w].pc = "handling",
                                    ![w].claimed_sucessfully = "True"]
            /\ claimed' = [claimed EXCEPT ![loop[w].job] = @ \cup {w}]
            /\ UNCHANGED transitioned
       ELSE /\ loop' = [loop EXCEPT ![w] =
                   [Frame("poll") EXCEPT !.claimed_sucessfully = "False"]]
            /\ transitioned' = [transitioned EXCEPT ![w] = FALSE]
            /\ UNCHANGED claimed
    /\ UNCHANGED <<clock, outside, tables, main, script, handled>>

\* The "handling <job_id>" heartbeat; then handle_job is entered and builds
\* its RUNNING update
HandlingHeartbeat(w) ==
    /\ loop[w].pc = "handling"
    /\ Commit(update_node_processor(w[1], w[2], Handling(loop[w].job), store))
    /\ loop' = [loop EXCEPT ![w].pc = "running_update", ![w].now = clock]
    /\ handled' = [handled EXCEPT ![loop[w].job] = @ \cup {w}]
    /\ UNCHANGED <<clock, outside, main, script, claimed,
                   transitioned>>

\* handle_job: the RUNNING update is executed; start_timestamp is read
RunningUpdate(w) ==
    /\ loop[w].pc = "running_update"
    /\ Commit(ExecuteQueries(<<RunningQuery(loop[w].job, loop[w].now)>>, store))
    /\ loop' = [loop EXCEPT ![w].pc = "execute_job",
                            ![w].start_timestamp = clock]
    /\ UNCHANGED <<clock, outside, main, script, history>>

\* Opening the log or spawning the child raises: the except branch of the
\* loop calls update_job_status, which builds its UPDATE
HandleJobRaises(w) ==
    /\ loop[w].pc = "execute_job"
    /\ loop' = [loop EXCEPT ![w].pc = "failed_update", ![w].now = clock]
    /\ UNCHANGED <<clock, outside, tables, main, script, history>>

\* cli.execute_job returns: the child has exited with some return code;
\* end_timestamp is read and the COMPLETED update is built
execute_job(w) ==
    /\ loop[w].pc = "execute_job"
    /\ \E returncode \in ReturnCodes :
          loop' = [loop EXCEPT ![w].pc = "completed_update",
                               ![w].returncode = returncode,
                               ![w].now = clock]
    /\ UNCHANGED <<clock, outside, tables, main, script, history>>

\* handle_job: the result_metadata it writes
ResultMetadata(returncode, start_timestamp, end_timestamp) ==
    [returncode |-> returncode, start_timestamp |-> start_timestamp,
     end_timestamp |-> end_timestamp,
     duration_s |-> end_timestamp - start_timestamp]

\* db.sanitize_json: the JSON text of a mapping, which the JSONB column
\* gives back as the mapping with the same keys and values
sanitize_json(mapping) ==
    [key \in DOMAIN mapping |-> mapping[key]]

\* handle_job: the COMPLETED update is executed
CompletedUpdate(w) ==
    /\ loop[w].pc = "completed_update"
    /\ Commit(ExecuteQueries(
          <<CompletedQuery(loop[w].job, loop[w].now,
                sanitize_json(
                    ResultMetadata(loop[w].returncode, loop[w].start_timestamp,
                                   loop[w].now)))>>, store))
    /\ loop' = [loop EXCEPT ![w] =
          [Frame("idle") EXCEPT !.claimed_sucessfully = "True"]]
    /\ UNCHANGED <<clock, outside, main, script, history>>

\* update_job_status(status="FAILED"): the UPDATE is executed
update_job_status(w) ==
    /\ loop[w].pc = "failed_update"
    /\ Commit(ExecuteQueries(
          <<UpdateJobStatusQuery(loop[w].job, "FAILED", loop[w].now)>>, store))
    /\ loop' = [loop EXCEPT ![w] =
          [Frame("idle") EXCEPT !.claimed_sucessfully = "True"]]
    /\ UNCHANGED <<clock, outside, main, script, history>>

\* The idle heartbeat that ends an iteration
IdleHeartbeat(w) ==
    /\ loop[w].pc = "idle"
    /\ Commit(update_node_processor(w[1], w[2], "idle", store))
    /\ loop' = [loop EXCEPT ![w] =
          [Frame("poll") EXCEPT !.claimed_sucessfully = "True"]]
    /\ transitioned' = [transitioned EXCEPT ![w] = FALSE]
    /\ UNCHANGED <<clock, outside, main, script, handled, claimed>>

Tick ==
    /\ clock < MaxClock
    /\ clock' = clock + 1
    /\ UNCHANGED <<outside, tables, main, loop, script, history>>

\* --------------------------------------------------------- specifications

Next ==
    \/ NewJob
    \/ submit_job
    \/ \E h \in Hosts : update_node(h)
    \/ \E h \in Hosts : PoolMap(h)
    \/ \E h \in Hosts : KeyboardInterrupt(h)
    \/ \E h \in Hosts : stop_node(h)
    \/ \E h \in Hosts : PoolTerminate(h)
    \/ \E w \in ProcessorContext : Poll(w)
    \/ \E w \in ProcessorContext : SnoozingHeartbeat(w)
    \/ \E w \in ProcessorContext : snooze(w)
    \/ \E w \in ProcessorContext : ClaimUpdate(w)
    \/ \E w \in ProcessorContext : ClaimSelect(w)
    \/ \E w \in ProcessorContext : HandlingHeartbeat(w)
    \/ \E w \in ProcessorContext : RunningUpdate(w)
    \/ \E w \in ProcessorContext : HandleJobRaises(w)
    \/ \E w \in ProcessorContext : execute_job(w)
    \/ \E w \in ProcessorContext : CompletedUpdate(w)
    \/ \E w \in ProcessorContext : update_job_status(w)
    \/ \E w \in ProcessorContext : IdleHeartbeat(w)

Spec == Init /\ [][Next]_vars

NextClock == Next \/ Tick

\* One processor on one host, with the clock running
InitClock ==
    /\ InitDb
    /\ NUM_PARALLEL_JOBS = [h \in Hosts |-> IF h = "hostA" THEN 1 ELSE 0]

SpecClock == InitClock /\ [][NextClock]_vars

\* ------------------------------------- compute_node: the single loop
\* runners/compute_node.py is its own main process: main[h].pc is its
\* position, "compute_node" at its entry.  Its tags are fixed in the file.

COMPUTE_NODE_TAGS == {"gpu"}

\* orchestrator.update_node(status="started"), then the loop is entered
ComputeNodeStart(h) ==
    /\ main[h].pc = "compute_node"
    /\ Commit(ExecuteQueries(
          <<NodeInsertQuery(h, "started", COMPUTE_NODE_TAGS, clock)>>, store))
    /\ main' = [main EXCEPT ![h].pc = "cn_poll"]
    /\ UNCHANGED <<clock, outside, loop, script, history>>

\* get_pending_jobs(limit=1)
ComputeNodePoll(h) ==
    /\ main[h].pc = "cn_poll"
    /\ \E available_jobs \in get_pending_jobs(store, COMPUTE_NODE_TAGS, 1) :
          main' = [main EXCEPT ![h].pc =
                      IF available_jobs = None THEN "cn_snoozing"
                      ELSE "cn_claim_job"]
    /\ UNCHANGED <<clock, outside, tables, loop, script, history>>

\* update_node(status="snoozing")
ComputeNodeSnoozing(h) ==
    /\ main[h].pc = "cn_snoozing"
    /\ Commit(ExecuteQueries(
          <<NodeInsertQuery(h, "snoozing", COMPUTE_NODE_TAGS, clock)>>, store))
    /\ main' = [main EXCEPT ![h].pc = "cn_snooze"]
    /\ UNCHANGED <<clock, outside, loop, script, history>>

\* The sleep of snooze ends; update_node(status="idle"); continue
ComputeNodeSnooze(h) ==
    /\ main[h].pc = "cn_snooze"
    /\ snooze_time_seconds # 0
    /\ Commit(ExecuteQueries(
          <<NodeInsertQuery(h, "idle", COMPUTE_NODE_TAGS, clock)>>, store))
    /\ main' = [main EXCEPT ![h].pc = "cn_poll"]
    /\ UNCHANGED <<clock, outside, loop, script, history>>

\* claim_job(job_id=..., hostname=..., config_file=...): the call passes no
\* processor_idx, which claim_job requires, so it raises TypeError before
\* any statement is built; nothing catches it and the process exits.  The
\* rest of the iteration (handle_job, not in a try) is never reached.
ComputeNodeClaimJob(h) ==
    /\ main[h].pc = "cn_claim_job"
    /\ main' = [main EXCEPT ![h].pc = "TypeError"]
    /\ UNCHANGED <<clock, outside, tables, loop, script, history>>

\* One worker on hostA: either compute_node.py or compute_node_multi with
\* one processor
InitRunners ==
    /\ Undisturbed
    /\ clock = 0
    /\ nodes = [h \in {UNASSIGNED} |-> PrepopulateRow(0)]
    /\ processors = <<>>
    /\ jobs = <<>>
    /\ \/ /\ NUM_PARALLEL_JOBS = [h \in Hosts |-> 0]
          /\ main = [h \in Hosts |->
                        [pc |-> IF h = "hostA" THEN "compute_node" ELSE "off",
                         now |-> 0]]
       \/ /\ NUM_PARALLEL_JOBS = [h \in Hosts |-> IF h = "hostA" THEN 1 ELSE 0]
          /\ main = [h \in Hosts |-> [pc |-> "off", now |-> 0]]
    /\ loop = [w \in ProcessorContext |-> Frame("off")]
    /\ script = NoJob
    /\ handled = [id \in 1..MaxJobs |-> {}]
    /\ claimed = [id \in 1..MaxJobs |-> {}]
    /\ transitioned = [w \in ProcessorContext |-> FALSE]

\* The submit script
ScriptNext ==
    \/ NewJob
    \/ submit_job

\* The main process of a runner, without the interrupt
MainNext(h) ==
    \/ update_node(h)
    \/ PoolMap(h)
    \/ ComputeNodeStart(h)
    \/ ComputeNodePoll(h)
    \/ ComputeNodeSnoozing(h)
    \/ ComputeNodeSnooze(h)
    \/ ComputeNodeClaimJob(h)

\* A processor loop whose executor does not raise
LoopNext(w) ==
    \/ Poll(w)
    \/ SnoozingHeartbeat(w)
    \/ snooze(w)
    \/ ClaimUpdate(w)
    \/ ClaimSelect(w)
    \/ HandlingHeartbeat(w)
    \/ RunningUpdate(w)
    \/ execute_job(w)
    \/ CompletedUpdate(w)
    \/ IdleHeartbeat(w)

\* The except branch of a processor loop
LoopExcept(w) ==
    \/ HandleJobRaises(w)
    \/ update_job_status(w)

NextS1 ==
    \/ ScriptNext
    \/ \E h \in Hosts : MainNext(h)
    \/ \E w \in ProcessorContext : LoopNext(w)

NextRunners ==
    \/ NextS1
    \/ \E w \in ProcessorContext : LoopExcept(w)

SpecRunners == InitRunners /\ [][NextRunners]_vars

\* Every process that can take a step eventually takes one
FairS1 ==
    /\ InitRunners
    /\ [][NextS1]_vars
    /\ WF_vars(ScriptNext)
    /\ \A h \in Hosts : WF_vars(MainNext(h))
    /\ \A w \in ProcessorContext : WF_vars(LoopNext(w))

\* ------------------------------------------------- snooze and signals
\* orchestrator.snooze: with snooze_time_seconds 0 it leaves the process
\* before any sleep; an interrupt in the sleep leaves the process when the
\* caller passed interruptible=False (the processor loop) and opens a grace
\* sleep otherwise (the single loop), in which a second interrupt leaves
\* the process and whose end returns to the caller.

\* An interrupt in the sleep that only ends the sleep
SnoozeKeyboardInterruptWakes(w) ==
    /\ loop[w].pc = "snooze"
    /\ snooze_time_seconds # 0
    /\ signals' = [signals EXCEPT ![w] = @ + 1]
    /\ loop' = [loop EXCEPT ![w].pc = "poll"]
    /\ UNCHANGED <<clock, NUM_PARALLEL_JOBS, snooze_time_seconds, tables, main,
                   script, history>>

\* snooze_time_seconds is 0: sys.exit(0) in the pool worker
SnoozeExit(w) ==
    /\ loop[w].pc = "snooze"
    /\ snooze_time_seconds = 0
    /\ loop' = [loop EXCEPT ![w] = Frame("exited")]
    /\ UNCHANGED <<clock, outside, tables, main, script, history>>

\* snooze(interruptible=False): KeyboardInterrupt in the sleep, sys.exit(0)
SnoozeKeyboardInterrupt(w) ==
    /\ loop[w].pc = "snooze"
    /\ snooze_time_seconds # 0
    /\ signals' = [signals EXCEPT ![w] = @ + 1]
    /\ loop' = [loop EXCEPT ![w] = Frame("exited")]
    /\ UNCHANGED <<clock, NUM_PARALLEL_JOBS, snooze_time_seconds, tables, main,
                   script, history>>

\* An interrupt from the terminal reaches the main process and every pool
\* worker.  The main process is in pool.map and goes to stop_node; a worker
\* in the sleep of snooze calls sys.exit(0); in a worker anywhere else the
\* KeyboardInterrupt is caught by nothing (the loop's except names
\* Exception) and ends the worker.
TerminalInterrupt(h) ==
    /\ main[h].pc = "up"
    /\ main' = [main EXCEPT ![h] = [pc |-> "stop_node", now |-> clock]]
    /\ signals' = [p \in Processes |->
                      IF p[1] = h /\ p[2] < NUM_PARALLEL_JOBS[h]
                      THEN signals[p] + 1 ELSE signals[p]]
    /\ loop' = [w \in ProcessorContext |->
                   IF ~InPool(w, h) THEN loop[w]
                   ELSE IF loop[w].pc = "snooze" /\ snooze_time_seconds # 0
                        THEN Frame("exited")
                   ELSE Frame("dead")]
    /\ transitioned' = [w \in ProcessorContext |->
                           IF InPool(w, h) THEN FALSE ELSE transitioned[w]]
    /\ UNCHANGED <<clock, NUM_PARALLEL_JOBS, snooze_time_seconds, tables,
                   script, handled, claimed>>

\* An interrupt in the sleep that leaves the process at once
ComputeNodeSnoozeInterruptExits(h) ==
    /\ main[h].pc = "cn_snooze"
    /\ snooze_time_seconds # 0
    /\ signals[MainProcess(h)] < MaxSignals
    /\ signals' = [signals EXCEPT ![MainProcess(h)] = @ + 1]
    /\ main' = [main EXCEPT ![h].pc = "exited"]
    /\ UNCHANGED <<clock, NUM_PARALLEL_JOBS, snooze_time_seconds, tables, loop,
                   script, history>>

\* snooze(interruptible=True) in the single loop: the sleep is interrupted
\* and the grace sleep of 5 seconds starts
ComputeNodeSnoozeInterrupt(h) ==
    /\ main[h].pc = "cn_snooze"
    /\ snooze_time_seconds # 0
    /\ signals[MainProcess(h)] < MaxSignals
    /\ signals' = [signals EXCEPT ![MainProcess(h)] = @ + 1]
    /\ main' = [main EXCEPT ![h].pc = "cn_grace"]
    /\ UNCHANGED <<clock, NUM_PARALLEL_JOBS, snooze_time_seconds, tables, loop,
                   script, history>>

\* A second interrupt in the grace sleep: sys.exit(0)
ComputeNodeGraceInterrupt(h) ==
    /\ main[h].pc = "cn_grace"
    /\ signals[MainProcess(h)] < MaxSignals
    /\ signals' = [signals EXCEPT ![MainProcess(h)] = @ + 1]
    /\ main' = [main EXCEPT ![h].pc = "exited"]
    /\ UNCHANGED <<clock, NUM_PARALLEL_JOBS, snooze_time_seconds, tables, loop,
                   script, history>>

\* The grace sleep ends: snooze returns, the loop writes idle and continues
ComputeNodeResume(h) ==
    /\ main[h].pc = "cn_grace"
    /\ Commit(ExecuteQueries(
          <<NodeInsertQuery(h, "idle", COMPUTE_NODE_TAGS, clock)>>, store))
    /\ main' = [main EXCEPT ![h].pc = "cn_poll"]
    /\ UNCHANGED <<clock, outside, loop, script, history>>

\* One node with two processors
InitSignal ==
    /\ InitDb
    /\ NUM_PARALLEL_JOBS = [h \in Hosts |-> IF h = "hostA" THEN 2 ELSE 0]

\* A node whose executor does not raise and that gets interrupts: in its
\* main process, in one sleeping processor, or from the terminal
NextSignal ==
    \/ ScriptNext
    \/ \E h \in Hosts : update_node(h)
    \/ \E h \in Hosts : PoolMap(h)
    \/ \E h \in Hosts : KeyboardInterrupt(h)
    \/ \E h \in Hosts : TerminalInterrupt(h)
    \/ \E h \in Hosts : stop_node(h)
    \/ \E h \in Hosts : PoolTerminate(h)
    \/ \E w \in ProcessorContext : LoopNext(w)
    \/ \E w \in ProcessorContext : SnoozeKeyboardInterrupt(w)

SpecSignal == InitSignal /\ [][NextSignal]_vars

\* The main process that caught the interrupt goes on to run stop_node
FairSignal == SpecSignal /\ \A h \in Hosts : WF_vars(stop_node(h))

\* The two loops with interrupts in their snooze
NextSnooze ==
    \/ NextRunners
    \/ \E w \in ProcessorContext : SnoozeKeyboardInterrupt(w)
    \/ \E h \in Hosts : ComputeNodeSnoozeInterrupt(h)
    \/ \E h \in Hosts : ComputeNodeGraceInterrupt(h)
    \/ \E h \in Hosts : ComputeNodeResume(h)

SpecSnooze == InitRunners /\ [][NextSnooze]_vars

\* Any deployment with any configured snooze time
InitBatch ==
    /\ snooze_time_seconds \in SnoozeTimes
    /\ signals = [p \in Processes |-> 0]
    /\ NUM_PARALLEL_JOBS \in Deployments
    /\ clock = 0
    /\ nodes = [h \in {UNASSIGNED} |-> PrepopulateRow(0)]
    /\ processors = <<>>
    /\ jobs = <<>>
    /\ main = [h \in Hosts |-> [pc |-> "off", now |-> 0]]
    /\ loop = [w \in ProcessorContext |-> Frame("off")]
    /\ script = NoJob
    /\ handled = [id \in 1..MaxJobs |-> {}]
    /\ claimed = [id \in 1..MaxJobs |-> {}]
    /\ transitioned = [w \in ProcessorContext |-> FALSE]

NextBatch ==
    \/ Next
    \/ \E w \in ProcessorContext : SnoozeExit(w)

SpecBatch == InitBatch /\ [][NextBatch]_vars

\* ------------------------------------------------------ store failures
\* A call of the store raises (connection lost, statement rejected).  The
\* processor function has no try around its poll, its claim or its
\* heartbeats, so the exception ends the function; the pool keeps it as the
\* result of that task.  pool.map returns or raises only when every task
\* of the map is done.

\* Positions of the loop whose next store call is outside the try block
StoreCalls == {"poll", "snoozing", "snooze", "claim_update", "claim_select",
               "handling", "idle"}

\* get_pending_jobs, claim_job or update_node_processor raises
StoreFailure(w) ==
    /\ loop[w].pc \in StoreCalls
    /\ loop' = [loop EXCEPT ![w] = Frame("raised")]
    /\ transitioned' = [transitioned EXCEPT ![w] = FALSE]
    /\ UNCHANGED <<clock, outside, tables, main, script, handled,
                   claimed>>

\* Every task of the map has ended: pool.map re-raises the first exception
\* in the main process.  It is not a KeyboardInterrupt, so stop_node is not
\* called; the with-block terminates the pool and the process ends.
PoolMapRaises(h) ==
    /\ main[h].pc = "up"
    /\ \A w \in ProcessorContext : InPool(w, h) => loop[w].pc = "raised"
    /\ main' = [main EXCEPT ![h] = [pc |-> "raised", now |-> 0]]
    /\ loop' = [w \in ProcessorContext |->
                   IF InPool(w, h) THEN Frame("dead") ELSE loop[w]]
    /\ UNCHANGED <<clock, outside, tables, script, history>>

NextFailure ==
    \/ Next
    \/ \E w \in ProcessorContext : StoreFailure(w)
    \/ \E h \in Hosts : PoolMapRaises(h)

SpecFailure == Init /\ [][NextFailure]_vars

\* ------------------------------------------- the heartbeat as a function
\* orchestrator.update_node_processor called for a processor of a
\* registered node with any of the loop's statuses, at any time

HeartbeatStatuses == {"idle", "snoozing", Handling(1)}

UpdateNodeProcessorCall(w, status) ==
    /\ main[w[1]].pc = "registered"
    /\ InPool(w, w[1])
    /\ Commit(update_node_processor(w[1], w[2], status, store))
    /\ UNCHANGED <<clock, outside, main, loop, script, history>>

InitUpsert ==
    /\ InitDb
    /\ NUM_PARALLEL_JOBS = [h \in Hosts |-> IF h = "hostA" THEN 2 ELSE 0]

NextUpsert ==
    \/ \E h \in Hosts : update_node(h)
    \/ \E w \in ProcessorContext : \E status \in HeartbeatStatuses :
          UpdateNodeProcessorCall(w, status)
    \/ Tick

SpecUpsert == InitUpsert /\ [][NextUpsert]_vars

\* ------------------------------------------- insert_query as SQL text
\* The text of the tags literal Job.insert_query builds, what the store's
\* array input makes of it, and the Job that get_pending_jobs builds from
\* the row.  A string is a sequence of characters.

TagChars == {"a", ","}

Strings == UNION {[1..n -> TagChars] : n \in 0..MaxTagLen}

TagLists == UNION {[1..n -> Strings] : n \in 0..MaxTags}

\* The env and metadata maps of a caller: absent, empty, or the map of
\* scripts/submit_test_job.py
MapChoices ==
    {None, Py(<<>>), Py([key \in {"TEST_VAR_1"} |-> "Hello World"])}

\* The Jobs a caller may build
BuiltJobs ==
    [job_tags : {None} \cup {Py(tags) : tags \in TagLists},
     job_env_variables : MapChoices,
     job_metadata : MapChoices]

\* ",".join(tags)
RECURSIVE Join(_)
Join(tags) ==
    IF tags = <<>> THEN <<>>
    ELSE IF Len(tags) = 1 THEN tags[1]
    ELSE tags[1] \o <<",">> \o Join(Tail(tags))

\* The elements of an array literal's body: the text between its commas
RECURSIVE Split(_, _)
Split(text, element) ==
    IF text = <<>> THEN <<element>>
    ELSE IF Head(text) = "," THEN <<element>> \o Split(Tail(text), <<>>)
    ELSE Split(Tail(text), Append(element, Head(text)))

Malformed == [kind |-> "malformed array literal"]

\* The store's input of the literal '{' body '}' for a TEXT[] column: an
\* empty body is the empty array, an empty element is an error
ArrayIn(body) ==
    IF body = <<>> THEN Array(<<>>)
    ELSE LET elements == Split(body, <<>>)
         IN  IF \E i \in DOMAIN elements : elements[i] = <<>> THEN Malformed
             ELSE Array(elements)

\* Job.insert_query: the values of the tags, env and metadata columns
InsertQueryValues(j) ==
    LET job_tags == IF j.job_tags = None THEN Text("NULL")
                    ELSE ArrayIn(Join(j.job_tags.v))
        job_metadata == IF j.job_metadata = None THEN Text("NULL")
                        ELSE Val(sanitize_json(j.job_metadata.v))
        job_env_variables ==
            IF j.job_env_variables = None THEN Text("NULL")
            ELSE Val(sanitize_json(j.job_env_variables.v))
    IN  [job_tags |-> handle_null(job_tags),
         job_env_variables |-> handle_null(job_env_variables),
         job_metadata |-> handle_null(job_metadata)]

\* Job.get_pending_jobs: the Job built from a row of the result
JobFromRow(row) ==
    [job_tags |-> IF row.job_tags = SqlNull THEN None
                  ELSE Py(row.job_tags.elems),
     job_env_variables |-> IF row.job_env_variables = SqlNull THEN None
                           ELSE Py(row.job_env_variables.v),
     job_metadata |-> IF row.job_metadata = SqlNull THEN None
                      ELSE Py(row.job_metadata.v)]

\* A caller has built a Job
InitRoundTrip ==
    /\ Undisturbed
    /\ clock = 0
    /\ NUM_PARALLEL_JOBS = [h \in Hosts |-> 0]
    /\ nodes = [h \in {UNASSIGNED} |-> PrepopulateRow(0)]
    /\ processors = <<>>
    /\ jobs = <<>>
    /\ main = [h \in Hosts |-> [pc |-> "off", now |-> 0]]
    /\ loop = [w \in ProcessorContext |-> Frame("off")]
    /\ handled = [id \in 1..MaxJobs |-> {}]
    /\ claimed = [id \in 1..MaxJobs |-> {}]
    /\ transitioned = [w \in ProcessorContext |-> FALSE]
    /\ script \in [at : {"built"}, job : BuiltJobs, fetched : {None}]

\* The INSERT is executed: the store rejects a malformed literal and the
\* error propagates to the caller
InsertJob ==
    /\ script.at = "built"
    /\ LET row == InsertQueryValues(script.job)
       IN  IF row.job_tags = Malformed
           THEN /\ script' = [script EXCEPT !.at = "raised"]
                /\ UNCHANGED jobs
           ELSE /\ script' = [script EXCEPT !.at = "inserted"]
                /\ jobs' = Append(jobs, row)
    /\ UNCHANGED <<clock, outside, nodes, processors, main, loop,
                   history>>

\* The row is read back and a Job is built from it
FetchJob ==
    /\ script.at = "inserted"
    /\ script' = [script EXCEPT !.at = "fetched",
                                !.fetched = JobFromRow(jobs[Len(jobs)])]
    /\ UNCHANGED <<clock, outside, tables, main, loop, history>>

NextRoundTrip ==
    \/ InsertJob
    \/ FetchJob

SpecRoundTrip == InitRoundTrip /\ [][NextRoundTrip]_vars

\* A job table filled before any node is started: up to MaxRows untagged
\* jobs as the submit scripts insert them, submitted at any times up to
\* now; then one processor on hostA is the only consumer
SubmittedRow(t) ==
    JobInsertQuery(
        [job_payload |-> "echo $TEST_VAR_1, $TEST_VAR_2",
         job_status |-> "PENDING", job_tags |-> None,
         job_last_updated |-> t, job_submission_time |-> t,
         job_assigned_node |-> None, job_assigned_node_processor |-> None,
         job_result_metadata |-> None]).row

InitFifo ==
    /\ Undisturbed
    /\ clock = MaxClock
    /\ NUM_PARALLEL_JOBS = [h \in Hosts |-> IF h = "hostA" THEN 1 ELSE 0]
    /\ nodes = [h \in {UNASSIGNED} |-> PrepopulateRow(0)]
    /\ processors = <<>>
    /\ jobs \in UNION {[1..n -> {SubmittedRow(t) : t \in 0..MaxClock}] :
                          n \in 0..MaxRows}
    /\ main = [h \in Hosts |-> [pc |-> "off", now |-> 0]]
    /\ loop = [w \in ProcessorContext |-> Frame("off")]
    /\ script = NoJob
    /\ handled = [id \in 1..MaxRows |-> {}]
    /\ claimed = [id \in 1..MaxRows |-> {}]
    /\ transitioned = [w \in ProcessorContext |-> FALSE]

NextFifo ==
    \/ \E h \in Hosts : update_node(h)
    \/ \E h \in Hosts : PoolMap(h)
    \/ \E w \in ProcessorContext : Poll(w)
    \/ \E w \in ProcessorContext : SnoozingHeartbeat(w)
    \/ \E w \in ProcessorContext : snooze(w)
    \/ \E w \in ProcessorContext : ClaimUpdate(w)
    \/ \E w \in ProcessorContext : ClaimSelect(w)
    \/ \E w \in ProcessorContext : HandlingHeartbeat(w)
    \/ \E w \in ProcessorContext : RunningUpdate(w)
    \/ \E w \in ProcessorContext : HandleJobRaises(w)
    \/ \E w \in ProcessorContext : execute_job(w)
    \/ \E w \in ProcessorContext : CompletedUpdate(w)
    \/ \E w \in ProcessorContext : update_job_status(w)
    \/ \E w \in ProcessorContext : IdleHeartbeat(w)

SpecFifo == InitFifo /\ [][NextFifo]_vars

\* ---------------------------------------------------------------- restarts
\* The operator starts compute_node_multi.py again on a host whose earlier
\* process has ended: the module's main block runs from its top, with the
\* store as the earlier run left it.

Restart(h) ==
    /\ main[h].pc = "done"
    /\ signals[MainProcess(h)] < MaxSignals
    /\ main' = [main EXCEPT ![h].pc = "off"]
    /\ UNCHANGED <<clock, outside, tables, loop, script, history>>

\* A job table filled before the node is started, all rows submitted at 0
InitRestart ==
    /\ Undisturbed
    /\ clock = 0
    /\ NUM_PARALLEL_JOBS = [h \in Hosts |-> IF h = "hostA" THEN 1 ELSE 0]
    /\ nodes = [h \in {UNASSIGNED} |-> PrepopulateRow(0)]
    /\ processors = <<>>
    /\ jobs \in UNION {[1..n -> {SubmittedRow(0)}] : n \in 0..MaxRows}
    /\ main = [h \in Hosts |-> [pc |-> "off", now |-> 0]]
    /\ loop = [w \in ProcessorContext |-> Frame("off")]
    /\ script = NoJob
    /\ handled = [id \in 1..MaxRows |-> {}]
    /\ claimed = [id \in 1..MaxRows |-> {}]
    /\ transitioned = [w \in ProcessorContext |-> FALSE]

\* One processor that is stopped from its main process and started again
NextRestart ==
    \/ NextFifo
    \/ \E h \in Hosts : KeyboardInterrupt(h)
    \/ \E h \in Hosts : stop_node(h)
    \/ \E h \in Hosts : PoolTerminate(h)
    \/ \E h \in Hosts : Restart(h)

SpecRestart == InitRestart /\ [][NextRestart]_vars

\* A node that finds no job: its processor heartbeats "snoozing" and "idle"
\* as time passes, before and after the node is stopped
NextHeartbeat ==
    \/ \E h \in Hosts : update_node(h)
    \/ \E h \in Hosts : PoolMap(h)
    \/ \E h \in Hosts : KeyboardInterrupt(h)
    \/ \E h \in Hosts : stop_node(h)
    \/ \E h \in Hosts : PoolTerminate(h)
    \/ \E w \in ProcessorContext : Poll(w)
    \/ \E w \in ProcessorContext : SnoozingHeartbeat(w)
    \/ \E w \in ProcessorContext : snooze(w)
    \/ Tick

SpecHeartbeat == InitClock /\ [][NextHeartbeat]_vars

\* ------------------------------------------ update_node as a function
\* The runners call orchestrator.update_node with the statuses below and
\* with TAGS = args.tags.split(",") of the --tags text.  Node.insert_query
\* writes the tags as the array literal '{' + ",".join(tags) + '}', which
\* the store parses; a rejected statement raises in the caller.  script
\* holds the arguments of the latest call and how it ended.

NodeStatuses == {"started", "snoozing", "idle"}

\* Node(hostname, status, last_seen, tags).insert_query() with its tags
\* literal as the store reads it
NodeInsertQueryText(hostname, status, tags, t) ==
    [op |-> "upsert_node", hostname |-> hostname,
     row |-> [node_status |-> status, node_tags |-> ArrayIn(Join(tags)),
              node_num_parallel_jobs |-> 1, node_last_seen |-> t]]

\* update_node(hostname, status, tags) with tags split from the text
UpdateNodeCall(h, status, text) ==
    LET tags == Split(text, <<>>)
        query == NodeInsertQueryText(h, status, tags, clock)
    IN  /\ IF query.row.node_tags = Malformed
           THEN /\ script' = [at |-> "raised", hostname |-> h,
                              status |-> status, tags |-> tags]
                /\ UNCHANGED tables
           ELSE /\ script' = [at |-> "returned", hostname |-> h,
                              status |-> status, tags |-> tags]
                /\ Commit(ExecuteQueries(<<query>>, store))
        /\ UNCHANGED <<clock, outside, main, loop, history>>

InitNodeUpsert ==
    /\ InitDb
    /\ NUM_PARALLEL_JOBS = [h \in Hosts |-> 0]

NextNodeUpsert ==
    \E h \in Hosts : \E status \in NodeStatuses : \E text \in Strings :
        UpdateNodeCall(h, status, text)

SpecNodeUpsert == InitNodeUpsert /\ [][NextNodeUpsert]_vars

\* ----------------------------------------------------------------- progress
\* Nodes that are started and never stopped.  The scheduler of the host runs
\* every process that can take a step, and a child process terminates: a
\* processor in execute_job leaves it, by the return of the child or by an
\* exception.

NextProgress ==
    \/ ScriptNext
    \/ \E h \in Hosts : update_node(h)
    \/ \E h \in Hosts : PoolMap(h)
    \/ \E w \in ProcessorContext : LoopNext(w)
    \/ \E w \in ProcessorContext : LoopExcept(w)

SpecProgress == Init /\ [][NextProgress]_vars

FairProgress ==
    /\ SpecProgress
    /\ \A h \in Hosts : WF_vars(update_node(h) \/ PoolMap(h))
    /\ \A w \in ProcessorContext : WF_vars(LoopNext(w) \/ LoopExcept(w))

\* ----------------------------------------------------------------- claims

Ids == 1..Len(jobs)

Status(id) == jobs[id].job_status

\* The processor named by a row's assigned_node / assigned_node_processor
IsOwner(w, id) ==
    /\ jobs[id].job_assigned_node = w[1]
    /\ jobs[id].job_assigned_node_processor = Val(w[2])

\* Positions of the loop after claim_job returned True
HoldsJob == {"handling", "running_update", "execute_job", "completed_update",
             "failed_update", "idle"}

\* C1: among the claim_job calls racing for one job at most one returns
\* True; a call that has run its UPDATE finds the job no longer PENDING; the
\* row names the winner; and a job that left PENDING has a winner that
\* returned True, or is still inside claim_job, or was terminated there.
C1_ClaimMutualExclusion ==
    \A id \in Ids :
        /\ Cardinality(claimed[id]) <= 1
        /\ \A w \in claimed[id] : IsOwner(w, id) /\ Status(id) # "PENDING"
        /\ \A w \in ProcessorContext :
              (loop[w].pc = "claim_select" /\ loop[w].job = id) => Status(id) # "PENDING"
        /\ Status(id) # "PENDING" =>
              \E w \in ProcessorContext :
                  /\ IsOwner(w, id)
                  /\ \/ w \in claimed[id]
                     \/ loop[w].pc = "claim_select" /\ loop[w].job = id
                     \/ loop[w].pc = "dead"

\* C1 witness: two processors raced for the only job; one call returned
\* True and the other returned False.
C1_Witness ==
    /\ Len(jobs) = 1
    /\ \E w1, w2 \in ProcessorContext :
          /\ w1 # w2
          /\ claimed[1] = {w1}
          /\ loop[w2].claimed_sucessfully = "False"

\* C2: at most one processor ever enters handle_job for a job, and it is the
\* processor the row's assigned_node / assigned_node_processor name.
C2_AtMostOneExecution ==
    \A id \in Ids :
        /\ Cardinality(handled[id]) <= 1
        /\ \A w \in handled[id] : IsOwner(w, id)

\* C2 witness: a job was handled to completion by one processor while the
\* other processor's claim on it had been refused.
C2_Witness ==
    \E id \in Ids : \E w1, w2 \in ProcessorContext :
        /\ w1 # w2
        /\ handled[id] = {w1}
        /\ Status(id) = "COMPLETED"
        /\ loop[w2].claimed_sucessfully = "False"
        /\ Len(jobs) = 1

\* C3 (as claimed): the COMPLETED write of a worker whose job stop_node has
\* moved to INTERRUPTED leaves the status INTERRUPTED.
C3_InterruptedGuard ==
    [][\A w \in ProcessorContext :
          (/\ loop[w].pc = "completed_update"
           /\ loop'[w].pc = "idle"
           /\ Status(loop[w].job) = "INTERRUPTED")
          => jobs'[loop[w].job].job_status = "INTERRUPTED"]_vars

\* The transitions of the job state machine
Diagram ==
    {<<"PENDING", "CLAIMED">>, <<"CLAIMED", "RUNNING">>,
     <<"RUNNING", "COMPLETED">>, <<"RUNNING", "FAILED">>,
     <<"RUNNING", "INTERRUPTED">>}

\* C4 (as claimed): a row is created PENDING and every change of a job's
\* status is a transition of the diagram, so nothing leaves COMPLETED,
\* FAILED or INTERRUPTED.
C4_StateMachineSound ==
    [][/\ \A id \in Ids :
             \/ jobs'[id].job_status = Status(id)
             \/ <<Status(id), jobs'[id].job_status>> \in Diagram
       /\ \A id \in (1..Len(jobs')) \ Ids :
             jobs'[id].job_status = "PENDING"]_vars

\* The tag set a jobs row requires: none for NULL and for the empty array
Required(row) ==
    IF row.job_tags = SqlNull THEN {} ELSE row.job_tags.elems

\* C5 (as claimed): whatever the node's tags T, a poll with a limit that
\* covers the table returns a PENDING job iff its tags are absent or empty,
\* or non-empty and a subset of T.
C5_Eligibility ==
    \A T \in SUBSET AllTags :
        \A r \in JobGetPendingJobs(store, T, MaxJobs) :
            \A id \in Ids :
                Status(id) = "PENDING" =>
                    ((\E k \in DOMAIN r : r[k] = id)
                        <=> (\/ Required(jobs[id]) = {}
                             \/ Required(jobs[id]) \subseteq T))

\* C6: a job is PENDING iff its assigned node is UNASSIGNED and its
\* processor is NULL; any other job names a registered node other than
\* UNASSIGNED and carries a processor index.
C6_AssignmentMatchesStatus ==
    \A id \in Ids :
        /\ Status(id) = "PENDING" <=>
              /\ jobs[id].job_assigned_node = UNASSIGNED
              /\ jobs[id].job_assigned_node_processor = SqlNull
        /\ Status(id) # "PENDING" =>
              /\ jobs[id].job_assigned_node \in DOMAIN nodes \ {UNASSIGNED}
              /\ jobs[id].job_assigned_node_processor # SqlNull
              /\ jobs[id].job_assigned_node_processor.v \in Nat

\* C6 witness: a job has been claimed and not yet handled; its row carries
\* the claimer's host and processor index.
C6_Witness ==
    \E id \in Ids : \E w \in ProcessorContext :
        Status(id) = "CLAIMED" /\ IsOwner(w, id) /\ loop[w].pc = "handling"

\* C7 (as claimed): result_metadata is non-null iff the status is COMPLETED
\* or FAILED.
C7_ResultMetadataIffTerminal ==
    \A id \in Ids :
        jobs[id].job_result_metadata # SqlNull
            <=> Status(id) \in {"COMPLETED", "FAILED"}

\* C7 (amended): result_metadata is non-null iff the status is COMPLETED.
C7_ResultMetadataIffCompleted ==
    \A id \in Ids :
        jobs[id].job_result_metadata # SqlNull <=> Status(id) = "COMPLETED"

\* C7 witness: a job that a processor handled was written FAILED by the
\* except branch and its result_metadata is NULL.
C7_Witness ==
    \E id \in Ids :
        /\ Status(id) = "FAILED"
        /\ handled[id] # {}
        /\ jobs[id].job_result_metadata = SqlNull

\* C8 (as claimed): last_updated is never before submission_time, and no
\* committed write lowers a job's last_updated.
C8_TimestampMonotonic ==
    /\ [](\A id \in Ids :
            jobs[id].job_last_updated >= jobs[id].job_submission_time)
    /\ [][\A id \in Ids :
            jobs'[id].job_last_updated >= jobs[id].job_last_updated]_vars

\* C9: a processor is past claim_job, holding a job, only if its own UPDATE
\* moved that job from PENDING to CLAIMED and the call returned True; a call
\* whose UPDATE changed no row returned False and the loop went back to poll.
C9_LostRace ==
    \A w \in ProcessorContext :
        /\ loop[w].pc \in HoldsJob =>
              transitioned[w] /\ loop[w].claimed_sucessfully = "True"
        /\ \A id \in Ids : w \in handled[id] \cup claimed[id] => IsOwner(w, id)

\* C9 witness: a processor lost the race, got False and polls again while
\* the winner holds the job.
C9_Witness ==
    \E w1, w2 \in ProcessorContext :
        /\ loop[w1].pc = "poll"
        /\ loop[w1].claimed_sucessfully = "False"
        /\ loop[w2].pc \in HoldsJob

RunningOn(h) ==
    {id \in Ids : jobs[id].job_assigned_node = h /\ Status(id) = "RUNNING"}

\* C10: the step that makes a node STOPPED makes INTERRUPTED every job that
\* was RUNNING on it, and a job goes from RUNNING to INTERRUPTED only in a
\* step after which its node is STOPPED: no state lies between the two.
C10_StopIsAtomic ==
    [][/\ \A h \in Hosts :
             (/\ h \in DOMAIN nodes
              /\ nodes[h].node_status # "STOPPED"
              /\ nodes'[h].node_status = "STOPPED")
             => \A id \in RunningOn(h) : jobs'[id].job_status = "INTERRUPTED"
       /\ \A id \in Ids :
             (Status(id) = "RUNNING" /\ jobs'[id].job_status = "INTERRUPTED")
             => /\ nodes'[jobs[id].job_assigned_node].node_status = "STOPPED"
                /\ nodes[jobs[id].job_assigned_node].node_status # "STOPPED"]_vars

\* C10 witness: a node is STOPPED and a job that ran on it is INTERRUPTED.
C10_Witness ==
    \E id \in Ids :
        /\ Status(id) = "INTERRUPTED"
        /\ nodes[jobs[id].job_assigned_node].node_status = "STOPPED"

\* C15: every job that left PENDING carries tags that are absent, or a
\* non-empty subset of the tags of the node that claimed it; no processor
\* is inside claim_job or past it with a job its node's tags do not cover.
C15_TagMismatch ==
    /\ \A id \in Ids :
          Status(id) # "PENDING" =>
              \/ jobs[id].job_tags = SqlNull
              \/ /\ jobs[id].job_tags.elems # {}
                 /\ jobs[id].job_tags.elems \subseteq TAGS[jobs[id].job_assigned_node]
    /\ \A w \in ProcessorContext :
          loop[w].job \in Ids => Required(jobs[loop[w].job]) \subseteq TAGS[w[1]]

\* C15 witness: a job tagged gpu is PENDING while the processor of the
\* running cpu node, its poll having returned nothing, snoozes.
C15_Witness ==
    \E id \in Ids : \E w \in ProcessorContext :
        /\ jobs[id].job_tags = Array({"gpu"})
        /\ Status(id) = "PENDING"
        /\ TAGS[w[1]] = {"cpu"}
        /\ loop[w].pc = "snooze"
        /\ main[w[1]].pc = "up"

\* The status values of the job state machine
JobStatus ==
    {"PENDING", "CLAIMED", "RUNNING", "COMPLETED", "FAILED", "INTERRUPTED"}

\* C18: every job's status is one of PENDING, CLAIMED, RUNNING, COMPLETED,
\* FAILED, INTERRUPTED.
C18_StatusDomain ==
    \A id \in Ids : Status(id) \in JobStatus

\* C18 witness: update_job_status has written a job's status.
C18_Witness ==
    \E id \in Ids : \E w \in handled[id] :
        Status(id) = "FAILED" /\ loop[w].pc = "idle"

\* C19 (as claimed): once a node's startup is complete its row has status
\* started, the tags it was given and num_parallel_jobs = N, and exactly
\* the processors 0..N-1 of the host run a loop.
C19_NodeRegistration ==
    \A h \in Hosts :
        main[h].pc = "up" =>
            /\ nodes[h].node_status = "started"
            /\ nodes[h].node_tags = Array(TAGS[h])
            /\ nodes[h].node_num_parallel_jobs = NUM_PARALLEL_JOBS[h]
            /\ \A w \in ProcessorContext :
                  w[1] = h =>
                      (loop[w].pc \notin {"off", "dead"}
                          <=> w[2] \in 0..(NUM_PARALLEL_JOBS[h] - 1))

\* C20 (as claimed): a processor that is inside an iteration or has ended
\* one, a lost claim race included, has upserted its processor row.
C20_HeartbeatEveryIteration ==
    \A w \in ProcessorContext :
        (\/ loop[w].pc \in {"claim_update", "claim_select", "snoozing"}
         \/ loop[w].claimed_sucessfully = "False")
            => <<w[2], w[1]>> \in DOMAIN processors

\* C12: the write of a processor whose child exited with return code r
\* makes the job COMPLETED with result_metadata.returncode = r and
\* duration_s >= 0, and a job becomes FAILED only by the write of a
\* processor whose handle_job raised, never after a child's exit code.
C12_NonZeroExitCompletes ==
    [][/\ \A w \in ProcessorContext :
             (loop[w].pc = "completed_update" /\ loop'[w].pc = "idle") =>
                 /\ jobs'[loop[w].job].job_status = "COMPLETED"
                 /\ jobs'[loop[w].job].job_result_metadata # SqlNull
                 /\ jobs'[loop[w].job].job_result_metadata.v.returncode
                        = loop[w].returncode
                 /\ jobs'[loop[w].job].job_result_metadata.v.duration_s >= 0
       /\ \A id \in Ids :
             (Status(id) # "FAILED" /\ jobs'[id].job_status = "FAILED") =>
                 \E w \in ProcessorContext :
                     /\ loop[w].pc = "failed_update"
                     /\ loop[w].job = id
                     /\ loop'[w].pc = "idle"]_vars

\* C12 witness: a job whose child exited with return code 2 after running
\* for some time is COMPLETED.
C12_Witness ==
    \E id \in Ids :
        /\ Status(id) = "COMPLETED"
        /\ jobs[id].job_result_metadata.v.returncode = 2
        /\ jobs[id].job_result_metadata.v.duration_s > 0

\* C17 (as claimed): every row an insert creates has status PENDING,
\* submission_time equal to last_updated, assigned_node UNASSIGNED and
\* NULL assigned_node_processor and result_metadata.
C17_Submission ==
    [][\A id \in (1..Len(jobs')) \ Ids :
          /\ jobs'[id].job_status = "PENDING"
          /\ jobs'[id].job_submission_time = jobs'[id].job_last_updated
          /\ jobs'[id].job_assigned_node = UNASSIGNED
          /\ jobs'[id].job_assigned_node_processor = SqlNull
          /\ jobs'[id].job_result_metadata = SqlNull]_vars

\* The order (submission_time, job_id)
Before(a, b) ==
    \/ jobs[a].job_submission_time < jobs[b].job_submission_time
    \/ /\ jobs[a].job_submission_time = jobs[b].job_submission_time
       /\ a < b

\* C13 (as claimed): the rows one poll returns are in ascending order of
\* (submission_time, job_id), and every eligible PENDING job the limit
\* cut off comes after them in that order; with limit 1 the row returned is
\* the minimum.
C13_FifoWithinPoll ==
    \A limit \in 1..MaxRows :
        \A r \in JobGetPendingJobs(store, TAGS["hostA"], limit) :
            /\ \A a, b \in DOMAIN r : a < b => Before(r[a], r[b])
            /\ \A a \in DOMAIN r : \A id \in Ids :
                  (/\ Eligible(jobs[id], TAGS["hostA"])
                   /\ \A b \in DOMAIN r : r[b] # id)
                      => Before(r[a], id)

\* C16: with a lone processor as the only consumer, a job that has left
\* PENDING was submitted no later than every eligible job that is still
\* PENDING: jobs are started in the order of their submission times.
C16_FifoSingleWorker ==
    \A a, b \in Ids :
        (/\ Status(a) # "PENDING"
         /\ Status(b) = "PENDING"
         /\ Eligible(jobs[b], TAGS["hostA"]))
            => jobs[a].job_submission_time <= jobs[b].job_submission_time

\* C16 witness: of three jobs submitted at times 0, 1, 2 the processor has
\* finished the first two, in that order, and runs the third.
C16_Witness ==
    /\ Len(jobs) = 3
    /\ \A id \in Ids : jobs[id].job_submission_time = id - 1
    /\ Status(1) = "COMPLETED"
    /\ Status(2) = "COMPLETED"
    /\ Status(3) = "RUNNING"
    /\ handled[3] = {<<"hostA", 0>>}

\* C11 (as claimed): in the multi-processor loop the write that follows a
\* raise of handle_job makes the job FAILED and the loop goes on to its next
\* iteration; in the single loop no iteration that polled a job ends with
\* the process terminated by an exception.
C11_FailedOnException ==
    [][/\ \A w \in ProcessorContext :
             (loop[w].pc = "failed_update" /\ loop'[w].pc # "failed_update") =>
                 /\ jobs'[loop[w].job].job_status = "FAILED"
                 /\ loop'[w].pc = "idle"
       /\ \A h \in Hosts : main'[h].pc # "TypeError"]_vars

\* C14 (as claimed): a job submitted with an empty tag list, a single
\* worker with tags gpu on hostA and an executor that does not raise: the
\* job eventually is COMPLETED on hostA, processor 0, with the result
\* metadata of its child.
C14_HappyPath ==
    \A id \in 1..MaxJobs :
        (IF id \in Ids THEN jobs[id].job_tags = Array({}) ELSE FALSE)
            ~> (IF id \in Ids
                THEN /\ Status(id) = "COMPLETED"
                     /\ IsOwner(<<"hostA", 0>>, id)
                     /\ jobs[id].job_result_metadata # SqlNull
                ELSE FALSE)

\* C27: every processor row's parent node and every job's assigned node is
\* a row of the nodes table, and a processor that is past the start of its
\* loop runs on a registered node.
C27_ReferentialIntegrity ==
    /\ \A key \in DOMAIN processors : key[2] \in DOMAIN nodes
    /\ \A id \in Ids : jobs[id].job_assigned_node \in DOMAIN nodes
    /\ \A w \in ProcessorContext :
          loop[w].pc \notin {"off", "dead"} => w[1] \in DOMAIN nodes

\* A processor row and a claimed job, both of a registered node
C27_Witness ==
    \E w \in ProcessorContext, id \in Ids :
        /\ <<w[2], w[1]>> \in DOMAIN processors
        /\ jobs[id].job_assigned_node = w[1]
        /\ w[1] \in DOMAIN nodes

\* C28: no step removes a job row or changes the payload, the tags or the
\* submission time of the row of a job id; the set of job ids only grows.
C28_NoDeletion ==
    [][/\ Len(jobs') >= Len(jobs)
       /\ \A id \in Ids :
             /\ jobs'[id].job_payload = jobs[id].job_payload
             /\ jobs'[id].job_tags = jobs[id].job_tags
             /\ jobs'[id].job_submission_time = jobs[id].job_submission_time]_vars

\* A tagged job submitted after the start of the clock that went through
\* claim, RUNNING and its final update and still has its tags and time
C28_Witness ==
    \E id \in Ids :
        /\ Status(id) \in {"COMPLETED", "FAILED", "INTERRUPTED"}
        /\ jobs[id].job_tags = Array({"gpu"})
        /\ jobs[id].job_submission_time > 0
        /\ jobs[id].job_last_updated > jobs[id].job_submission_time

\* C29: the step that executes stop_node for a host changes no job row that
\* is assigned to another node or whose status is not RUNNING, and no node
\* row of another host; a job CLAIMED on the host stays CLAIMED.
C29_StopScope ==
    [][\A h \in Hosts :
          (main[h].pc = "stop_node" /\ main'[h].pc = "stopped") =>
              /\ Len(jobs') = Len(jobs)
              /\ \A id \in Ids :
                    (jobs[id].job_assigned_node # h \/ Status(id) # "RUNNING")
                        => jobs'[id] = jobs[id]
              /\ DOMAIN nodes' = DOMAIN nodes
              /\ \A n \in DOMAIN nodes : n # h => nodes'[n] = nodes[n]]_vars

\* The node is stopped and a job claimed on it, not yet RUNNING, is still
\* CLAIMED
C29_Witness ==
    \E h \in Hosts, id \in Ids :
        /\ main[h].pc = "stopped"
        /\ nodes[h].node_status = "STOPPED"
        /\ jobs[id].job_assigned_node = h
        /\ Status(id) = "CLAIMED"

\* C30: the claim UPDATE of any processor for a job id that does not exist
\* or whose row is not PENDING leaves the jobs table as it is, in every
\* reachable state, and so does every such step of claim_job.
C30_ClaimFrame ==
    /\ [](\A w \in ProcessorContext : \A id \in 0..(Len(jobs) + 1) :
             (IF id \in Ids THEN Status(id) # "PENDING" ELSE TRUE) =>
                 ExecSql(ClaimQuery(w[1], w[2], id, clock), store).jobs = jobs)
    /\ [][\A w \in ProcessorContext :
             (/\ loop[w].pc = "claim_update"
              /\ loop'[w].pc = "claim_select"
              /\ Status(loop[w].job) # "PENDING") => jobs' = jobs]_vars

\* A processor has run its claim UPDATE on a job another processor had
\* already taken out of PENDING
C30_Witness ==
    \E w \in ProcessorContext :
        /\ loop[w].pc = "claim_select"
        /\ ~transitioned[w]
        /\ Status(loop[w].job) # "PENDING"
        /\ ~IsOwner(w, loop[w].job)

\* C25: in every reachable store, the processor upsert applied once and
\* then again with the same key and status leaves the same set of keys, the
\* other rows as they were, and the row of the key as the first application
\* left it except for last_seen, which is that of the last application.
C25_IdempotentHeartbeat ==
    \A w \in ProcessorContext : \A status \in HeartbeatStatuses :
        \A t1, t2 \in 0..MaxClock :
            LET first == ExecSql(ProcessorInsertQuery(w[2], w[1], status, t1),
                                 store)
                again == ExecSql(ProcessorInsertQuery(w[2], w[1], status, t2),
                                 first)
                key == <<w[2], w[1]>>
            IN  /\ DOMAIN again.processors = DOMAIN first.processors
                /\ key \in DOMAIN first.processors
                /\ \A k \in DOMAIN first.processors \ {key} :
                      /\ again.processors[k] = first.processors[k]
                      /\ k \in DOMAIN processors
                      /\ first.processors[k] = processors[k]
                /\ again.processors[key] =
                      [first.processors[key] EXCEPT !.processor_last_seen = t2]
                /\ again.nodes = nodes /\ again.jobs = jobs

\* Both processors of the node have a row, one written at an earlier time
\* than now, so that a further heartbeat with its status changes last_seen
C25_Witness ==
    /\ Cardinality(DOMAIN processors) = 2
    /\ \E key \in DOMAIN processors :
          /\ processors[key].processor_status = "idle"
          /\ processors[key].processor_last_seen < clock

\* Two values of a tags, env or metadata field are logically the same:
\* both absent, or the same set of tags, or key-wise equal maps
SameTags(a, b) ==
    IF a = None \/ b = None THEN a = b
    ELSE {a.v[i] : i \in DOMAIN a.v} = {b.v[i] : i \in DOMAIN b.v}

SameMap(a, b) ==
    IF a = None \/ b = None THEN a = b
    ELSE /\ DOMAIN a.v = DOMAIN b.v
         /\ \A key \in DOMAIN a.v : a.v[key] = b.v[key]

\* C26 (as claimed): a Job with any tags, env and metadata is inserted,
\* and the Job read back from its row has the same set of tags (absent and
\* empty kept apart), key-wise equal env and metadata, and None where the
\* caller gave None.
C26_RoundTrip ==
    /\ script.at # "raised"
    /\ script.at = "fetched" =>
          /\ SameTags(script.job.job_tags, script.fetched.job_tags)
          /\ SameMap(script.job.job_env_variables,
                     script.fetched.job_env_variables)
          /\ SameMap(script.job.job_metadata, script.fetched.job_metadata)

\* C21 (as claimed): a store failure in a processor's poll, claim or
\* heartbeat does not end the processor, which goes back to its poll; it
\* changes no other processor's loop, and the node's main process does not
\* end because of it.
C21_LocalRecovery ==
    [][/\ \A w \in ProcessorContext : loop'[w].pc # "raised"
       /\ \A w, peer \in ProcessorContext :
             (loop[w].pc \in StoreCalls /\ loop'[w].pc = "raised" /\ peer # w)
                 => loop'[peer] = loop[peer]
       /\ \A h \in Hosts : main'[h].pc # "raised"]_vars

\* C22: once an interrupt has reached the main process of a node whose
\* pool is up, the node's row eventually is STOPPED; the step that runs
\* stop_node makes every job that is RUNNING on the node at that moment
\* INTERRUPTED; and a processor that gets an interrupt does not go on
\* polling: it leaves its loop.
C22_SignalStopsNode ==
    /\ \A h \in Hosts :
          (signals[MainProcess(h)] > 0)
              ~> (IF h \in DOMAIN nodes
                  THEN nodes[h].node_status = "STOPPED" ELSE FALSE)
    /\ [][/\ \A h \in Hosts :
                (main[h].pc = "stop_node" /\ main'[h].pc = "stopped") =>
                    /\ nodes'[h].node_status = "STOPPED"
                    /\ \A id \in RunningOn(h) : jobs'[id].job_status = "INTERRUPTED"
          /\ \A w \in ProcessorContext :
                signals'[w] > signals[w] => loop'[w].pc \in {"exited", "dead"}]_vars

\* After an interrupt from the terminal the node is STOPPED, the job that
\* was RUNNING on it is INTERRUPTED, and the processor that was in its
\* snooze has left
C22_Witness ==
    \E h \in Hosts, w \in ProcessorContext, id \in Ids :
        /\ h \in DOMAIN nodes
        /\ nodes[h].node_status = "STOPPED"
        /\ signals[MainProcess(h)] > 0
        /\ jobs[id].job_assigned_node = h
        /\ Status(id) = "INTERRUPTED"
        /\ InPool(w, h)
        /\ signals[w] > 0
        /\ loop[w].pc = "exited"

\* C23: in the single loop (interruptible) an interrupt in the sleep of
\* snooze starts the grace sleep; an interrupt in the grace sleep leaves
\* the process; a grace sleep that ends without one returns to the loop,
\* which polls again.  In the processor loop (not interruptible) an
\* interrupt in the sleep leaves the process.
C23_SnoozeInterrupt ==
    [][/\ \A h \in Hosts :
             LET interrupted ==
                     signals'[MainProcess(h)] > signals[MainProcess(h)]
             IN  /\ (main[h].pc = "cn_snooze" /\ interrupted)
                        => main'[h].pc = "cn_grace"
                 /\ (main[h].pc = "cn_grace" /\ interrupted)
                        => main'[h].pc = "exited"
                 /\ (main[h].pc = "cn_grace" /\ ~interrupted
                        /\ main'[h] # main[h]) => main'[h].pc = "cn_poll"
                 /\ main'[h].pc = "exited" => main[h].pc \in {"cn_grace", "exited"}
       /\ \A w \in ProcessorContext :
             (loop[w].pc = "snooze" /\ signals'[w] > signals[w])
                 => loop'[w].pc = "exited"]_vars

\* The single loop has left after an interrupt in its sleep and a second
\* one in the grace sleep
C23_Witness ==
    /\ main["hostA"].pc = "exited"
    /\ signals[MainProcess("hostA")] = 2

\* C24: with snooze_time_seconds 0 a processor that is in snooze (its poll
\* returned no job) leaves instead of sleeping; and a processor leaves this
\* way only from snooze, holding no job of the poll and owning no job that
\* is CLAIMED or RUNNING.
C24_BatchMode ==
    [][\A w \in ProcessorContext :
          /\ (snooze_time_seconds = 0 /\ loop[w].pc = "snooze"
                 /\ loop'[w] # loop[w]) => loop'[w].pc \in {"exited", "dead"}
          /\ (loop'[w].pc = "exited" /\ loop[w].pc # "exited") =>
                 /\ snooze_time_seconds = 0
                 /\ loop[w].pc = "snooze"
                 /\ loop[w].job = 0
                 /\ \A id \in Ids :
                       IsOwner(w, id) => Status(id) \notin {"CLAIMED", "RUNNING"}]_vars

\* A processor that completed a job has left at its next, empty poll
C24_Witness ==
    \E w \in ProcessorContext, id \in Ids :
        /\ snooze_time_seconds = 0
        /\ loop[w].pc = "exited"
        /\ IsOwner(w, id)
        /\ Status(id) = "COMPLETED"

\* The jobs a processor's pair is assigned with status CLAIMED or RUNNING
InFlight(w) ==
    {id \in Ids : IsOwner(w, id) /\ Status(id) \in {"CLAIMED", "RUNNING"}}

\* Positions of the loop from its poll up to the claim's UPDATE
Polling == {"poll", "snoozing", "snooze", "claim_update"}

C32_HeartbeatRefreshesNode ==
    [][processors' # processors =>
          \E w \in ProcessorContext :
              /\ <<w[2], w[1]>> \in DOMAIN processors'
              /\ processors' = Upsert(processors, <<w[2], w[1]>>,
                                      processors'[<<w[2], w[1]>>])
              /\ processors'[<<w[2], w[1]>>].processor_last_seen = clock
              /\ w[1] \in DOMAIN nodes
              /\ nodes' = [nodes EXCEPT ![w[1]].node_last_seen = clock]]_vars

\* A STOPPED node whose last_seen a living worker has set after the stop
C32_Witness ==
    \E h \in Hosts :
        /\ h \in DOMAIN nodes
        /\ main[h].pc = "stopped"
        /\ nodes[h].node_status = "STOPPED"
        /\ nodes[h].node_last_seen > main[h].now
        /\ \E k \in DOMAIN processors :
              /\ k[2] = h
              /\ processors[k].processor_last_seen = nodes[h].node_last_seen

\* The status in the processor row of w, "" when there is no row
ProcessorStatus(w) ==
    IF <<w[2], w[1]>> \in DOMAIN processors
    THEN processors[<<w[2], w[1]>>].processor_status ELSE ""

\* Positions of the loop between its "handling" heartbeat and the write of
\* the job's final status
InHandleJob == {"running_update", "execute_job", "completed_update",
                "failed_update"}

\* The RUNNING write of a job finds its processor's row at "handling j",
\* and a row goes from "handling j" to "idle" only when j is COMPLETED or
\* FAILED
HeartbeatOrder ==
    /\ \A id \in Ids :
          Status(id) # "RUNNING" /\ jobs'[id].job_status = "RUNNING" =>
              \E w \in ProcessorContext :
                  IsOwner(w, id) /\ ProcessorStatus(w) = Handling(id)
    /\ \A w \in ProcessorContext : \A id \in Ids :
          /\ ProcessorStatus(w) = Handling(id)
          /\ <<w[2], w[1]>> \in DOMAIN processors'
          /\ processors'[<<w[2], w[1]>>].processor_status = "idle"
          => Status(id) \in {"COMPLETED", "FAILED"}

ProcessorStatusAfter(w) ==
    IF <<w[2], w[1]>> \in DOMAIN processors'
    THEN processors'[<<w[2], w[1]>>].processor_status ELSE ""

\* The steps of a processor whose poll returned no job: the poll itself
\* writes nothing, then "snoozing" is written, then "idle" and the loop is
\* at its poll again; none of them writes to the jobs table
EmptyCycleStep(w) ==
    /\ loop[w].pc = "poll" /\ loop'[w].pc = "snoozing" =>
          UNCHANGED tables
    /\ loop[w].pc = "snoozing" /\ loop'[w] # loop[w] =>
          /\ loop'[w].pc = "snooze"
          /\ ProcessorStatusAfter(w) = "snoozing"
          /\ UNCHANGED jobs
    /\ loop[w].pc = "snooze" /\ loop'[w] # loop[w] =>
          /\ loop'[w].pc = "poll"
          /\ ProcessorStatusAfter(w) = "idle"
          /\ UNCHANGED jobs

\* C34: a processor whose poll returned no job writes "snoozing", sleeps,
\* writes "idle" and is at its poll again, and no step of that cycle writes
\* to the jobs table.
C34_EmptyPollCycle ==
    /\ [][\A w \in ProcessorContext : EmptyCycleStep(w)]_vars
    /\ \A w \in ProcessorContext :
          (loop[w].pc = "snoozing") ~>
              (loop[w].pc = "poll" /\ ProcessorStatus(w) = "idle")

\* A processor is back at its poll with its row at "idle" while a job that
\* its tags do not match is PENDING and no job was ever handled
C34_Witness ==
    \E w \in ProcessorContext :
        /\ loop[w].pc = "poll"
        /\ ProcessorStatus(w) = "idle"
        /\ \A id \in DOMAIN handled : handled[id] = {}
        /\ \E id \in Ids : Status(id) = "PENDING"

\* Eligibility as the specification defines it: J empty, or J a subset of
\* T that meets T
SpecEligible(J, T) ==
    J = {} \/ (J \subseteq T /\ J \cap T # {})

\* C35: get_pending_jobs(tags, limit = N) with N >= 1 returns the "no jobs"
\* value None exactly when the table has no eligible PENDING job, and
\* otherwise at most N jobs, each of them PENDING in the table it read.
C35_PollResultBound ==
    \A T \in SUBSET AllTags : \A N \in 1..MaxRows :
        \A available_jobs \in get_pending_jobs(store, T, N) :
            /\ available_jobs = None <=>
                  ~ \E id \in Ids :
                        /\ Status(id) = "PENDING"
                        /\ SpecEligible(Required(jobs[id]), T)
            /\ available_jobs # None =>
                  /\ Len(available_jobs.v) <= N
                  /\ \A k \in DOMAIN available_jobs.v :
                        /\ available_jobs.v[k] \in Ids
                        /\ Status(available_jobs.v[k]) = "PENDING"

\* The same with eligibility as the SELECT of Job.get_pending_jobs decides it
PollResultBoundOfSelect ==
    \A T \in SUBSET AllTags : \A N \in 1..MaxRows :
        \A available_jobs \in get_pending_jobs(store, T, N) :
            /\ available_jobs = None <=>
                  ~ \E id \in Ids : Eligible(jobs[id], T)
            /\ available_jobs # None =>
                  /\ Len(available_jobs.v) <= N
                  /\ \A k \in DOMAIN available_jobs.v :
                        /\ available_jobs.v[k] \in Ids
                        /\ Status(available_jobs.v[k]) = "PENDING"

\* Positions of a processor loop that is running
Running == {"poll", "snoozing", "snooze", "claim_update", "claim_select",
            "handling", "running_update", "execute_job", "completed_update",
            "failed_update", "idle"}

\* C36: a PENDING job that the tags of the node of some running processor
\* make eligible is eventually claimed and eventually COMPLETED, FAILED or
\* INTERRUPTED.
C36_Progress ==
    \A id \in 1..MaxJobs :
        (IF id \in Ids
         THEN /\ Status(id) = "PENDING"
              /\ \E w \in ProcessorContext :
                    /\ loop[w].pc \in Running
                    /\ SpecEligible(Required(jobs[id]), TAGS[w[1]])
         ELSE FALSE)
        ~> (IF id \in Ids
            THEN Status(id) \in {"COMPLETED", "FAILED", "INTERRUPTED"}
            ELSE FALSE)

\* The same for a job that the SELECT of some running processor's poll
\* returns
ProgressOfSelected ==
    \A id \in 1..MaxJobs :
        (IF id \in Ids
         THEN \E w \in ProcessorContext :
                  /\ loop[w].pc \in Running
                  /\ Eligible(jobs[id], TAGS[w[1]])
         ELSE FALSE)
        ~> (IF id \in Ids
            THEN Status(id) \in {"COMPLETED", "FAILED", "INTERRUPTED"}
            ELSE FALSE)

\* C37: no step changes the status, the assigned node, the assigned
\* processor or the result_metadata of a job that is COMPLETED or FAILED.
C37_FinishedIsFinal ==
    [][\A id \in Ids :
          Status(id) \in {"COMPLETED", "FAILED"} =>
              /\ jobs'[id].job_status = jobs[id].job_status
              /\ jobs'[id].job_assigned_node = jobs[id].job_assigned_node
              /\ jobs'[id].job_assigned_node_processor =
                    jobs[id].job_assigned_node_processor
              /\ jobs'[id].job_result_metadata =
                    jobs[id].job_result_metadata]_vars

\* A job is still COMPLETED, with its result, after the node that ran it
\* was stopped and its pool terminated
C37_Witness ==
    \E id \in Ids :
        /\ Status(id) = "COMPLETED"
        /\ jobs[id].job_result_metadata # SqlNull
        /\ jobs[id].job_assigned_node \in Hosts
        /\ main[jobs[id].job_assigned_node].pc = "done"
        /\ nodes[jobs[id].job_assigned_node].node_status = "STOPPED"

\* The node row of the latest update_node call carries its status and tags
LatestCallInRow ==
    IF script.at \in {"returned", "raised"}
    THEN /\ script.hostname \in DOMAIN nodes
         /\ IF script.hostname \in DOMAIN nodes
            THEN /\ nodes[script.hostname].node_status = script.status
                 /\ nodes[script.hostname].node_tags = Array(script.tags)
            ELSE FALSE
    ELSE TRUE

\* A call keeps every row there is and changes none but the caller's
OtherRowsKept ==
    \A g \in DOMAIN nodes :
        /\ g \in DOMAIN nodes'
        /\ g # script'.hostname => nodes'[g] = nodes[g]

\* C38: after any number of update_node calls the table has one row for
\* the hostname (the table is keyed by hostname), carrying the status and
\* the tags of the latest call, and no call alters the row of another node
\* or the UNASSIGNED row.
C38_NodeUpsert ==
    /\ []LatestCallInRow
    /\ [][OtherRowsKept]_vars

\* The same for calls whose tags are all non-empty texts
NodeUpsertOfProperTags ==
    /\ []((script.at \in {"returned", "raised"} =>
              \A i \in DOMAIN script.tags : script.tags[i] # <<>>)
          => LatestCallInRow)
    /\ [][OtherRowsKept]_vars

====
